---- MODULE Spec2Model ----
(***************************************************************************)
(* Model of electron/win32-message-listener/listener.cpp: the hidden-window *)
(* message pump that turns MAME output messages into events for a          *)
(* JavaScript callback.                                                     *)
(*                                                                         *)
(* Text is a sequence of character codes, a WM_COPYDATA buffer a sequence   *)
(* of bytes.                                                                *)
(***************************************************************************)
EXTENDS Integers, Sequences, FiniteSets, TLC

VARIABLES
    g_hwnd,            \* the hidden window, NULL when not created
    g_mameHWND,        \* handle of the emulator window, NULL until a start
    g_running,         \* std::atomic<bool> g_running
    g_idToName,        \* unordered_map<UINT, string>, as a function
    g_currentRomName,  \* std::string g_currentRomName
    g_tsfn,            \* the ThreadSafeFunction handle (NoTsfn when empty)
    g_msgThread,       \* TRUE iff g_msgThread.joinable()
    pumpPc,            \* position of the message-pump thread
    quitPosted,        \* a WM_QUIT waits in the pump thread's queue
    selfQueue,         \* posted broadcasts waiting in the hidden window's queue
    jsQueue,           \* calls queued in the ThreadSafeFunction
    jsPc,              \* position of the JavaScript thread
    jsRet,             \* what the last startListener/stopListener did
    threads,           \* number of message-pump threads alive
    crashed,           \* "no", or why the process was terminated
    last,              \* the message last handled by WndProc and what it did
    scen, scenEv,      \* monitor of the start/label/update scenario
    stopped            \* a WM_MAME_STOP was handled since the last WM_MAME_START

vars == << g_hwnd, g_mameHWND, g_running, g_idToName, g_currentRomName, g_tsfn,
           g_msgThread, pumpPc, quitPosted, selfQueue, jsQueue, jsPc, jsRet,
           threads, crashed, last, scen, scenEv, stopped >>

----------------------------------------------------------------------------
(* Bounds of the model *)

MaxBacklog == 1      \* queued calls the consumer may lag behind when a message arrives
MaxOwnBacklog == 0   \* own broadcasts that may wait when an emulator message arrives
MaxReleaseCalls == 2
\* the bytes after the identifier in the id+label packets of SpecDecode
MaxLabelBytes == 3 \* Release() calls followed on one ThreadSafeFunction

----------------------------------------------------------------------------
(* Text constants of the source, as character codes *)

kGameName == << 95,95,71,65,77,69,95,78,65,77,69,95,95 >>       \* "__GAME_NAME__"
kMameStart == << 95,95,77,65,77,69,95,83,84,65,82,84,95,95 >>   \* "__MAME_START__"
kMameStop == << 95,95,77,65,77,69,95,83,84,79,80,95,95 >>       \* "__MAME_STOP__"
kIdPrefix == << 105,100,95 >>                                   \* "id_"

NULL == 0                  \* nullptr, the empty window handle
HWND_BROADCAST == 65535    \* the broadcast address of PostMessage
ME == 9                    \* the hidden window created by messagePump

\* RegisterWindowMessageA: one identifier per distinct string, the same
\* identifier for the same string.
RegisterWindowMessageA(name) ==
    CASE name = "MAMEOutputRegister"    -> 49153
      [] name = "MAMEOutputStart"       -> 49154
      [] name = "MAMEOutputStop"        -> 49155
      [] name = "MAMEOutputUpdateState" -> 49156
      [] name = "MAMEOutputGetIDString" -> 49157
      [] name = "MAMEOutputUnregister"  -> 49158

WM_MAME_REG      == RegisterWindowMessageA("MAMEOutputRegister")
WM_MAME_START    == RegisterWindowMessageA("MAMEOutputStart")
WM_MAME_STOP     == RegisterWindowMessageA("MAMEOutputStop")
WM_MAME_REGISTER == RegisterWindowMessageA("MAMEOutputRegister")
WM_MAME_UPDATE   == RegisterWindowMessageA("MAMEOutputUpdateState")
WM_MAME_GET_ID   == RegisterWindowMessageA("MAMEOutputGetIDString")
WM_MAME_UNREG    == RegisterWindowMessageA("MAMEOutputUnregister")
WM_COPYDATA      == 74
WM_NULL          == 0

----------------------------------------------------------------------------
(* Pure helpers *)

SubSeqFrom(s, i) == IF i > Len(s) THEN << >> ELSE SubSeq(s, i, Len(s))

\* to_string that keeps the last digit only
to_string_LastDigit(n) == << 48 + (n % 10) >>

\* std::to_string(UINT)
RECURSIVE to_string(_)
to_string(n) ==
    IF n < 10 THEN << 48 + n >> ELSE to_string(n \div 10) \o << 48 + (n % 10) >>

\* strnlen that does not stop at a NUL
strnlen_NoTerminator(s, maxLen) == maxLen

\* strnlen(strBuf, maxLen): bytes before the first NUL, at most maxLen
RECURSIVE strnlen(_, _)
strnlen(s, maxLen) ==
    IF maxLen = 0 \/ s = << >> \/ Head(s) = 0 THEN 0
    ELSE 1 + strnlen(Tail(s), maxLen - 1)

\* *reinterpret_cast<const UINT*>(buf), little endian
ReadUINT(buf) == buf[1] + 256 * buf[2] + 65536 * buf[3] + 16777216 * buf[4]

\* std::string::find('='): index of the first '=', 0 for npos
RECURSIVE FindFrom(_, _, _)
FindFrom(s, c, i) ==
    IF i > Len(s) THEN 0 ELSE IF s[i] = c THEN i ELSE FindFrom(s, c, i + 1)
find(s, c) == FindFrom(s, c, 1)

IsSpace(c) == c = 32 \/ (c >= 9 /\ c <= 13)
IsDigit(c) == c >= 48 /\ c <= 57

RECURSIVE SkipSpace(_, _)
SkipSpace(s, i) ==
    IF i <= Len(s) /\ IsSpace(s[i]) THEN SkipSpace(s, i + 1) ELSE i

\* the digits read from position i on, folded into a magnitude; "overflow"
\* when the value leaves the range of int
RECURSIVE Digits(_, _, _, _)
Digits(s, i, acc, neg) ==
    IF i > Len(s) \/ ~IsDigit(s[i]) THEN [ok |-> TRUE, val |-> IF neg THEN 0 - acc ELSE acc]
    ELSE LET d == s[i] - 48 IN
         IF acc > 214748364 \/ (acc = 214748364 /\ d > 7)
         THEN IF neg /\ acc = 214748364 /\ d = 8
                    /\ (i = Len(s) \/ ~IsDigit(s[i + 1]))
              THEN [ok |-> TRUE, val |-> (0 - 2147483647) - 1]
              ELSE [ok |-> FALSE, val |-> 0]
         ELSE Digits(s, i + 1, acc * 10 + d, neg)

\* std::stoi(str): skips white space, takes a sign and the longest run of
\* digits, ignores what follows; throws when there is no digit
\* (invalid_argument) or the value does not fit (out_of_range).
stoi(s) ==
    LET i == SkipSpace(s, 1)
        signed == i <= Len(s) /\ s[i] \in {43, 45}
        neg == signed /\ s[i] = 45
        j == IF signed THEN i + 1 ELSE i
    IN  IF j > Len(s) \/ ~IsDigit(s[j]) THEN [ok |-> FALSE, val |-> 0]
        ELSE Digits(s, j, 0, neg)

----------------------------------------------------------------------------
(* Events handed to the JavaScript callback *)

\* pushToJS, pushLabelToJS, pushStringToJS: nothing without a
\* ThreadSafeFunction, else one queued call carrying the object it builds
NoTsfn == [cb |-> NULL, threadCount |-> 0, releaseCalls |-> 0]

pushToJS(tsfn, key, value) ==
    IF tsfn = NoTsfn THEN << >>
    ELSE << [kind |-> "value", key |-> key, value |-> value] >>

\* pushLabelToJS that queues its call twice
pushLabelToJS_Twice(tsfn, key, label) ==
    IF tsfn = NoTsfn THEN << >>
    ELSE << [kind |-> "label", key |-> key, label |-> label],
            [kind |-> "label", key |-> key, label |-> label] >>

pushLabelToJS(tsfn, key, label) ==
    IF tsfn = NoTsfn THEN << >>
    ELSE << [kind |-> "label", key |-> key, label |-> label] >>

pushStringToJS(tsfn, key, s) ==
    IF tsfn = NoTsfn THEN << >>
    ELSE << [kind |-> "text", key |-> key, text |-> s] >>

\* PostMessage(to, msg, wp, lp)
PostMessage(to, msg, wp, lp) == [to |-> to, msg |-> msg, wp |-> wp, lp |-> lp]

----------------------------------------------------------------------------
(* The Binding Cache, std::unordered_map<UINT, std::string> *)

EmptyMap == [x \in {} |-> << >>]
count(map, id) == IF id \in DOMAIN map THEN 1 ELSE 0
put(map, id, label) ==
    [x \in (DOMAIN map) \cup {id} |-> IF x = id THEN label ELSE map[x]]
\* erase that removes nothing
erase_Kept(map, id) == map
erase(map, id) == [x \in (DOMAIN map) \ {id} |-> map[x]]
\* clear that keeps the bindings of identifier 7
clear_Partial(map) == [x \in (DOMAIN map) \cap {7} |-> map[x]]
clear(map) == EmptyMap

----------------------------------------------------------------------------
(* WndProc.  A handler maps the protocol state st = [cache, mame, rom] and *)
(* the message to the new state, the signals posted (out), the calls       *)
(* queued for JavaScript (ev) and whether an exception left the handler.   *)

Result(cache, mame, rom, out, ev, thrown) ==
    [cache |-> cache, mame |-> mame, rom |-> rom, out |-> out, ev |-> ev,
     thrown |-> thrown]

Unchanged(st) == Result(st.cache, st.mame, st.rom, << >>, << >>, FALSE)

\* KeyOf without the key of identifier 0
KeyOf_Prefixed(id) == kIdPrefix \o to_string(id)

\* the key of an update: "__GAME_NAME__" for identifier 0, "id_<id>" otherwise
KeyOf(id) == IF id = 0 THEN kGameName ELSE kIdPrefix \o to_string(id)

\* cds->dwData == 1 && cds->cbData >= sizeof(UINT) + 1
IsLabelPacket(m) == m.dwData = 1 /\ Len(m.data) >= 4 + 1

\* the identifier and the label of an id+label packet
DecodeLabel(data) ==
    LET strBuf == SubSeqFrom(data, 5)
        maxLen == Len(data) - 4
        len == strnlen(strBuf, maxLen)
    IN  [id |-> ReadUINT(data), label |-> SubSeq(strBuf, 1, len)]

\* OnLabel without the branch for identifier 0
OnLabel_NoSentinel(st, tsfn, id, label) ==
    Result(put(st.cache, id, label), st.mame, st.rom, << >>,
           pushLabelToJS(tsfn, kIdPrefix \o to_string(id), label)
               \o pushToJS(tsfn, kIdPrefix \o to_string(id), 0), FALSE)

OnLabel(st, tsfn, id, label) ==
    IF id = 0
    THEN Result(st.cache, st.mame, label, << >>,
                pushStringToJS(tsfn, kGameName, label)
                    \o pushToJS(tsfn, kGameName, 0), FALSE)
    ELSE Result(put(st.cache, id, label), st.mame, st.rom, << >>,
                pushLabelToJS(tsfn, kIdPrefix \o to_string(id), label)
                    \o pushToJS(tsfn, kIdPrefix \o to_string(id), 0), FALSE)

\* the fallback of WM_COPYDATA: key=value
OnKeyValue(st, tsfn, data) ==
    IF Len(data) > 3
    THEN LET eq == find(data, 61) IN
         IF eq # 0
         THEN LET key == SubSeq(data, 1, eq - 1)
                  v == stoi(SubSeqFrom(data, eq + 1))
              IN  IF v.ok
                  THEN Result(st.cache, st.mame, st.rom, << >>,
                              pushToJS(tsfn, key, v.val), FALSE)
                  ELSE Result(st.cache, st.mame, st.rom, << >>, << >>, TRUE)
         ELSE Unchanged(st)
    ELSE Unchanged(st)

OnCopyData(st, tsfn, m) ==
    IF IsLabelPacket(m)
    THEN LET rec == DecodeLabel(m.data) IN OnLabel(st, tsfn, rec.id, rec.label)
    ELSE OnKeyValue(st, tsfn, m.data)

\* OnStart posting to the window of the previous start
OnStart_PreviousHandle(st, tsfn, hwnd, m) ==
    Result(clear(st.cache), m.wp, st.rom,
           << PostMessage(HWND_BROADCAST, WM_MAME_REG, hwnd, 0),
              PostMessage(st.mame, WM_MAME_REG, hwnd, 0),
              PostMessage(HWND_BROADCAST, WM_MAME_GET_ID, hwnd, 0),
              PostMessage(st.mame, WM_MAME_GET_ID, hwnd, 0) >>,
           pushToJS(tsfn, kMameStart, 1), FALSE)

\* WM_MAME_START: wp is the window of the emulator
OnStart(st, tsfn, hwnd, m) ==
    Result(clear(st.cache), m.wp, st.rom,
           << PostMessage(HWND_BROADCAST, WM_MAME_REG, hwnd, 0),
              PostMessage(m.wp, WM_MAME_REG, hwnd, 0),
              PostMessage(HWND_BROADCAST, WM_MAME_GET_ID, hwnd, 0),
              PostMessage(m.wp, WM_MAME_GET_ID, hwnd, 0) >>,
           pushToJS(tsfn, kMameStart, 1), FALSE)

OnRegister(st, tsfn, hwnd, m) ==
    Result(st.cache, st.mame, st.rom,
           << PostMessage(HWND_BROADCAST, WM_MAME_GET_ID, hwnd, m.lp),
              PostMessage(st.mame, WM_MAME_GET_ID, hwnd, m.lp) >>,
           << >>, FALSE)

\* NeedsLabel without the test of g_mameHWND
NeedsLabel_AnyHandle(st, id) == id # 0 /\ count(st.cache, id) = 0

\* if we haven't seen a label for this ID yet, ask for it
NeedsLabel(st, id) == id # 0 /\ count(st.cache, id) = 0 /\ st.mame # NULL

OnUpdate(st, tsfn, hwnd, m) ==
    LET id == m.wp
        val == m.lp
    IN  Result(st.cache, st.mame, st.rom,
               IF NeedsLabel(st, id)
               THEN << PostMessage(HWND_BROADCAST, WM_MAME_GET_ID, hwnd, id),
                       PostMessage(st.mame, WM_MAME_GET_ID, hwnd, id) >>
               ELSE << >>,
               pushToJS(tsfn, KeyOf(id), val), FALSE)

OnUnreg(st, tsfn, m) ==
    Result(erase(st.cache, m.lp), st.mame, st.rom, << >>, << >>, FALSE)

OnStop(st, tsfn, m) ==
    Result(st.cache, st.mame, st.rom, << >>, pushToJS(tsfn, kMameStop, 0), FALSE)

WndProc(st, tsfn, hwnd, m) ==
    IF m.msg = WM_COPYDATA THEN OnCopyData(st, tsfn, m)
    ELSE IF m.msg = WM_MAME_START THEN OnStart(st, tsfn, hwnd, m)
    ELSE IF m.msg = WM_MAME_REGISTER THEN OnRegister(st, tsfn, hwnd, m)
    ELSE IF m.msg = WM_MAME_UPDATE THEN OnUpdate(st, tsfn, hwnd, m)
    ELSE IF m.msg = WM_MAME_UNREG THEN OnUnreg(st, tsfn, m)
    ELSE IF m.msg = WM_MAME_STOP THEN OnStop(st, tsfn, m)
    ELSE Unchanged(st)   \* DefWindowProc

----------------------------------------------------------------------------
(* Inbound messages the emulator may send *)

Handles == {1, 2}          \* window handles an emulator may announce
Ids == {0, 7, 12}          \* output identifiers, 0 being the game name
Values == {3}              \* output values
Callbacks == {1, 2}        \* JavaScript functions passed to startListener
NoCallback == 0            \* startListener called without a function

Msg(msg, wp, lp) == [msg |-> msg, wp |-> wp, lp |-> lp, dwData |-> 0, data |-> << >>]
CopyData(tag, data) ==
    [msg |-> WM_COPYDATA, wp |-> 0, lp |-> 0, dwData |-> tag, data |-> data]

\* a UINT as four little-endian bytes
EncodeUINT(n) ==
    << n % 256, (n \div 256) % 256, (n \div 65536) % 256, (n \div 16777216) % 256 >>

Lives == << 76,105,118,101,115 >>     \* "Lives"
Up == << 85,112 >>                    \* "Up"
Score == << 115,99,111,114,101 >>     \* "score"

LabelPackets ==
    { CopyData(1, EncodeUINT(7) \o Lives \o << 0 >>),           \* (7, "Lives")
      CopyData(1, EncodeUINT(7) \o Up),                     \* (7, "Up"), no NUL
      CopyData(1, EncodeUINT(12) \o Up \o << 0, 120 >>),    \* (12, "Up"), NUL, "x"
      CopyData(1, EncodeUINT(0) \o Lives \o << 0 >>) }      \* the game name

KeyValuePackets ==
    { CopyData(0, Score \o << 61, 49,53,48,48 >>),          \* "score=1500"
      CopyData(0, Score \o << 61, 45,53 >>),                \* "score=-5"
      CopyData(0, Score \o << 61, 97,98,99 >>),             \* "score=abc"
      CopyData(0, Score \o << 61, 49,50,97,98,99 >>) }      \* "score=12abc"

IgnoredPackets ==
    { CopyData(0, << 97, 61, 49 >>),                        \* "a=1", 3 bytes
      CopyData(0, Lives),                                   \* "Lives", no '='
      CopyData(1, EncodeUINT(7)) }                          \* an id, no label

ControlMessages ==
    { Msg(WM_MAME_START, h, 0) : h \in Handles }
    \cup { Msg(WM_MAME_REGISTER, 0, id) : id \in Ids }
    \cup { Msg(WM_MAME_UPDATE, id, v) : id \in Ids, v \in Values }
    \cup { Msg(WM_MAME_UNREG, 0, id) : id \in Ids }
    \cup { Msg(WM_MAME_STOP, 0, 0), Msg(WM_NULL, 0, 0) }

Inbound == ControlMessages \cup LabelPackets \cup KeyValuePackets \cup IgnoredPackets

NoMsg == Msg(WM_NULL, 0, 0)
NoLast == [m |-> NoMsg, own |-> FALSE, out |-> << >>, ev |-> << >>, thrown |-> FALSE,
           before |-> [cache |-> EmptyMap, mame |-> NULL]]

----------------------------------------------------------------------------
(* The initial state: the statics of listener.cpp before any call *)

Init ==
    /\ g_hwnd = NULL
    /\ g_mameHWND = NULL
    /\ g_running = TRUE
    /\ g_idToName = EmptyMap
    /\ g_currentRomName = << >>
    /\ g_tsfn = NoTsfn
    /\ g_msgThread = FALSE
    /\ pumpPc = "none"
    /\ quitPosted = FALSE
    /\ selfQueue = << >>
    /\ jsQueue = << >>
    /\ jsPc = "idle"
    /\ jsRet = [op |-> "none", arg |-> NoCallback, val |-> "none"]
    /\ threads = 0
    /\ crashed = "no"
    /\ last = NoLast
    /\ scen = 0
    /\ scenEv = << >>
    /\ stopped = FALSE

protoVars == << g_mameHWND, g_idToName, g_currentRomName, selfQueue, last, scen, scenEv,
                stopped >>
lifeVars == << g_hwnd, g_running, g_tsfn, g_msgThread, pumpPc, quitPosted, jsPc, jsRet,
               threads >>

----------------------------------------------------------------------------
(* The message pump thread *)

\* messagePump up to the message loop: the window is created
PumpInit ==
    /\ crashed = "no"
    /\ pumpPc = "init"
    /\ g_hwnd' = ME
    /\ pumpPc' = "loop"
    /\ UNCHANGED << g_running, g_tsfn, g_msgThread, quitPosted, jsPc, jsRet, threads,
                    jsQueue, crashed >>
    /\ UNCHANGED protoVars

\* the end of messagePump: the window is destroyed, and the thread's queue
\* goes with the thread
PumpLeave ==
    /\ g_hwnd' = NULL
    /\ pumpPc' = "exited"
    /\ threads' = threads - 1
    /\ quitPosted' = FALSE
    /\ selfQueue' = << >>
    /\ UNCHANGED << g_running, g_tsfn, g_msgThread, jsPc, jsRet, jsQueue, crashed,
                    g_mameHWND, g_idToName, g_currentRomName, last, scen, scenEv,
                    stopped >>

\* while (g_running && ...
PumpLoop ==
    /\ crashed = "no"
    /\ pumpPc = "loop"
    /\ IF g_running
       THEN /\ pumpPc' = "wait"
            /\ UNCHANGED << g_hwnd, g_running, g_tsfn, g_msgThread, quitPosted, jsPc,
                            jsRet, threads, jsQueue, crashed >>
            /\ UNCHANGED protoVars
       ELSE PumpLeave

\* ... GetMessage(&msg, ...)) returning 0 for WM_QUIT
PumpQuit ==
    /\ crashed = "no"
    /\ pumpPc = "wait"
    /\ quitPosted
    /\ PumpLeave

\* the broadcasts among the signals posted: they reach the own window too
Broadcasts(out) ==
    SelectSeq(out, LAMBDA o : o.to = HWND_BROADCAST)
AsInbound(o) == Msg(o.msg, o.wp, o.lp)
RECURSIVE MapInbound(_)
MapInbound(out) ==
    IF out = << >> THEN << >> ELSE << AsInbound(Head(out)) >> \o MapInbound(Tail(out))

\* ThreadSafeFunction::New(env, fn, "Win32Listener", 0, 1): the maximum
\* queue size, 0 for a queue without limit
kMaxQueueSize == 0

\* BlockingCall returns once the call is queued: it waits only while a
\* queue with a limit is full
CanQueue(queue, ev) ==
    kMaxQueueSize = 0 \/ Len(queue) + Len(ev) <= kMaxQueueSize

\* the calls queued last event first
Calls_Reversed(tsfn, ev) ==
    [i \in 1..Len(ev) |-> [cb |-> tsfn.cb, ev |-> ev[Len(ev) + 1 - i]]]

\* the calls a handler queues, each bound to the callback of the
\* ThreadSafeFunction
RECURSIVE Calls(_, _)
Calls(tsfn, ev) ==
    IF ev = << >> THEN << >>
    ELSE << [cb |-> tsfn.cb, ev |-> Head(ev)] >> \o Calls(tsfn, Tail(ev))

IsScenLabel(m) ==
    /\ m.msg = WM_COPYDATA
    /\ IsLabelPacket(m)
    /\ DecodeLabel(m.data) = [id |-> 7, label |-> Lives]

\* the scenario monitor: 1 after a start, 2 after start, label (7, "Lives"),
\* 3 after start, label (7, "Lives"), update(7, 3); 0 otherwise
ScenNext(m, own) ==
    IF own THEN scen
    ELSE IF m.msg = WM_MAME_START THEN 1
    ELSE IF scen = 1 /\ IsScenLabel(m) THEN 2
    ELSE IF scen = 2 /\ m = Msg(WM_MAME_UPDATE, 7, 3) THEN 3
    ELSE 0

\* the session monitor: set by WM_MAME_STOP, reset by WM_MAME_START
StoppedNext(m) ==
    IF m.msg = WM_MAME_START THEN FALSE
    ELSE IF m.msg = WM_MAME_STOP THEN TRUE
    ELSE stopped

\* DispatchMessage(&msg): WndProc runs on message m, the consumer being at
\* most lag calls behind
Handle(m, own, rest, lag) ==
    LET st == [cache |-> g_idToName, mame |-> g_mameHWND, rom |-> g_currentRomName]
        r == WndProc(st, g_tsfn, g_hwnd, m)
        sn == ScenNext(m, own)
    IN  /\ Len(jsQueue) <= lag
        /\ CanQueue(jsQueue, r.ev)
        /\ ~own => Len(selfQueue) <= MaxOwnBacklog
        /\ g_idToName' = r.cache
        /\ g_mameHWND' = r.mame
        /\ g_currentRomName' = r.rom
        /\ jsQueue' = jsQueue \o Calls(g_tsfn, r.ev)
        /\ selfQueue' = rest \o MapInbound(Broadcasts(r.out))
        /\ last' = [m |-> m, own |-> own, out |-> r.out, ev |-> r.ev,
                    thrown |-> r.thrown,
                    before |-> [cache |-> g_idToName, mame |-> g_mameHWND]]
        /\ scen' = sn
        /\ stopped' = StoppedNext(m)
        /\ scenEv' = IF sn = 0 THEN << >>
                     ELSE IF ~own /\ sn = 1 THEN r.ev
                     ELSE scenEv \o r.ev
        /\ IF r.thrown
           THEN \* nothing catches the exception of std::stoi: the process is
                \* terminated, or the system swallows it at the callback boundary
                \/ crashed' = "exception" /\ pumpPc' = pumpPc
                \/ crashed' = "no" /\ pumpPc' = "loop"
           ELSE crashed' = "no" /\ pumpPc' = "loop"
        /\ UNCHANGED << g_hwnd, g_running, g_tsfn, g_msgThread, quitPosted, jsPc, jsRet,
                        threads >>

\* a message of the emulator, one of S, arrives and is handled
Dispatch(S, lag) ==
    /\ crashed = "no"
    /\ pumpPc = "wait"
    /\ \E m \in S : Handle(m, FALSE, selfQueue, lag)

\* one of the listener's own broadcasts comes back and is handled
DispatchOwn(lag) ==
    /\ crashed = "no"
    /\ pumpPc = "wait"
    /\ selfQueue # << >>
    /\ Handle(Head(selfQueue), TRUE, Tail(selfQueue), lag)

----------------------------------------------------------------------------
(* The JavaScript thread: startListener, stopListener and the callback *)

\* g_tsfn.Release(): the handle stays set.  Releasing a ThreadSafeFunction
\* that was released already acts on an object that may be gone: the call
\* fails, or the process dies.
Release(tsfn) ==
    [tsfn EXCEPT !.threadCount = IF @ > 0 THEN @ - 1 ELSE 0,
                 !.releaseCalls = @ + 1]

\* StartListener without the test of joinable()
AlreadyRunning_Never == FALSE

\* if (g_msgThread.joinable()) return true;
AlreadyRunning == g_msgThread

\* StartListener taking anything for a callback
IsFunction_Anything(arg) == TRUE

\* info.Length() < 1 || !info[0].IsFunction() is false
IsFunction(arg) == arg # NoCallback

StartListener(arg) ==
    /\ crashed = "no"
    /\ jsPc = "idle"
    /\ IF ~IsFunction(arg)
       THEN /\ jsRet' = [op |-> "start", arg |-> arg, val |-> "TypeError"]
            /\ UNCHANGED << g_hwnd, g_running, g_tsfn, g_msgThread, pumpPc, quitPosted,
                            jsPc, threads >>
       ELSE IF AlreadyRunning
       THEN /\ jsRet' = [op |-> "start", arg |-> arg, val |-> "true"]
            /\ UNCHANGED << g_hwnd, g_running, g_tsfn, g_msgThread, pumpPc, quitPosted,
                            jsPc, threads >>
       ELSE /\ g_running' = TRUE
            /\ g_tsfn' = [cb |-> arg, threadCount |-> 1, releaseCalls |-> 0]
            /\ g_msgThread' = TRUE
            /\ pumpPc' = "init"
            /\ threads' = threads + 1
            /\ jsRet' = [op |-> "start", arg |-> arg, val |-> "launched"]
            /\ UNCHANGED << g_hwnd, quitPosted, jsPc >>
    /\ UNCHANGED << jsQueue, crashed >>
    /\ UNCHANGED protoVars

\* the tail of StopListener: if (g_tsfn) g_tsfn.Release(); return undefined
StopRelease ==
    /\ jsPc' = "idle"
    /\ jsRet' = [op |-> "stop", arg |-> NoCallback,
                 val |-> IF g_tsfn = NoTsfn THEN "undefined" ELSE "released"]
    /\ IF g_tsfn = NoTsfn
       THEN UNCHANGED << g_tsfn, crashed >>
       ELSE /\ g_tsfn' = Release(g_tsfn)
            /\ IF g_tsfn.threadCount = 0
               THEN crashed' \in {"no", "release"}
               ELSE crashed' = crashed

\* StopListener up to the join: the flag is cleared and WM_QUIT posted to
\* the thread of g_msgThread, which has a queue once it runs its loop
StopListener ==
    /\ crashed = "no"
    /\ jsPc = "idle"
    /\ g_tsfn.releaseCalls < MaxReleaseCalls
    /\ g_running' = FALSE
    /\ quitPosted' = (quitPosted \/ pumpPc \in {"loop", "wait"})
    /\ IF g_msgThread
       THEN /\ jsPc' = "join"
            /\ UNCHANGED << g_tsfn, g_msgThread, jsRet, crashed >>
       ELSE /\ StopRelease
            /\ UNCHANGED g_msgThread
    /\ UNCHANGED << g_hwnd, pumpPc, threads, jsQueue >>
    /\ UNCHANGED protoVars

\* g_msgThread.join() returns once the pump thread has ended
StopJoined ==
    /\ crashed = "no"
    /\ jsPc = "join"
    /\ pumpPc = "exited"
    /\ g_msgThread' = FALSE
    /\ pumpPc' = "none"
    /\ StopRelease
    /\ UNCHANGED << g_hwnd, g_running, quitPosted, threads, jsQueue >>
    /\ UNCHANGED protoVars

\* the event loop runs the next queued call: cb.Call({ o })
Deliver ==
    /\ crashed = "no"
    /\ jsPc = "idle"
    /\ jsQueue # << >>
    /\ jsQueue' = Tail(jsQueue)
    /\ UNCHANGED << crashed >>
    /\ UNCHANGED lifeVars
    /\ UNCHANGED protoVars

\* the whole listener, the emulator sending a few of its messages
FewInbound ==
    { Msg(WM_MAME_START, 1, 0), Msg(WM_MAME_UPDATE, 7, 3),
      CopyData(1, EncodeUINT(7) \o Lives \o << 0 >>),
      CopyData(1, EncodeUINT(0) \o Lives \o << 0 >>),
      CopyData(0, Score \o << 61, 49,53,48,48 >>) }

Next ==
    \/ \E arg \in Callbacks \cup {NoCallback} : StartListener(arg)
    \/ StopListener
    \/ StopJoined
    \/ Deliver
    \/ PumpInit
    \/ PumpLoop
    \/ PumpQuit
    \/ Dispatch(FewInbound, MaxBacklog)
    \/ DispatchOwn(MaxBacklog)

Spec == Init /\ [][Next]_vars

\* the protocol: one callback, the emulator sending any of its messages, the
\* consumer keeping up with the pump (WndProc never reads the queued calls)
NextProtocol ==
    \/ StartListener(1)
    \/ StopListener
    \/ StopJoined
    \/ Deliver
    \/ PumpInit
    \/ PumpLoop
    \/ PumpQuit
    \/ Dispatch(Inbound, 0)
    \/ DispatchOwn(0)

SpecProtocol == Init /\ [][NextProtocol]_vars

\* stopping: the emulator sends a start, an update and a key=value packet
\* with no number in it
StopInbound ==
    { Msg(WM_MAME_START, 1, 0), Msg(WM_MAME_UPDATE, 7, 3),
      CopyData(0, Score \o << 61, 97,98,99 >>) }

NextStop ==
    \/ \E arg \in Callbacks \cup {NoCallback} : StartListener(arg)
    \/ StopListener
    \/ StopJoined
    \/ Deliver
    \/ PumpInit
    \/ PumpLoop
    \/ PumpQuit
    \/ Dispatch(StopInbound, MaxBacklog)
    \/ DispatchOwn(MaxBacklog)

\* the pump thread is scheduled while it can take a step, GetMessage returns
\* once WM_QUIT is in the queue, and join() returns once the thread has ended
SpecStop ==
    /\ Init
    /\ [][NextStop]_vars
    /\ WF_vars(PumpInit)
    /\ WF_vars(PumpLoop)
    /\ WF_vars(PumpQuit)
    /\ WF_vars(StopJoined)

\* decoding: every id+label packet of an identifier of DecodeIds followed
\* by 1..MaxLabelBytes bytes, each a NUL or an 'A'
DecodeIds == {0, 7, 300}
DecodeBytes == {0, 65}
DecodeBodies == UNION { [1..n -> DecodeBytes] : n \in 1..MaxLabelBytes }
DecodePackets == { CopyData(1, EncodeUINT(i) \o b) : i \in DecodeIds, b \in DecodeBodies }

NextDecode ==
    \/ StartListener(1)
    \/ Deliver
    \/ PumpInit
    \/ PumpLoop
    \/ Dispatch(DecodePackets, 0)

SpecDecode == Init /\ [][NextDecode]_vars

----------------------------------------------------------------------------
(* What the properties below expect, written out for the messages of       *)
(* Inbound rather than computed by the operators above                     *)

\* the id+label packets and the record each one carries
LabelRecords ==
    { [pkt |-> CopyData(1, << 7,0,0,0, 76,105,118,101,115, 0 >>),
       id |-> 7, label |-> << 76,105,118,101,115 >>, key |-> << 105,100,95,55 >>],
      [pkt |-> CopyData(1, << 7,0,0,0, 85,112 >>),
       id |-> 7, label |-> << 85,112 >>, key |-> << 105,100,95,55 >>],
      [pkt |-> CopyData(1, << 12,0,0,0, 85,112, 0, 120 >>),
       id |-> 12, label |-> << 85,112 >>, key |-> << 105,100,95,49,50 >>],
      [pkt |-> CopyData(1, << 0,0,0,0, 76,105,118,101,115, 0 >>),
       id |-> 0, label |-> << 76,105,118,101,115 >>,
       key |-> << 95,95,71,65,77,69,95,78,65,77,69,95,95 >>] }

IsLabelRecord(m) == \E r \in LabelRecords : r.pkt = m
RecordOf(m) == CHOOSE r \in LabelRecords : r.pkt = m

\* get(id) on a Binding Cache
None == [some |-> FALSE, label |-> << >>]
Some(label) == [some |-> TRUE, label |-> label]
GetIn(map, id) == IF id \in DOMAIN map THEN Some(map[id]) ELSE None
Get(id) == GetIn(g_idToName, id)

IsSessionStart(m) == m.msg = WM_MAME_START
IsUnregister(m, id) == m.msg = WM_MAME_UNREG /\ m.lp = id

----------------------------------------------------------------------------
(* C1 *)

\* C1, as stated: a binding (id, L), id # 0, learned from a label record is
\* returned by get(id) in every state until an unregister(id) or a
\* session-start is handled, and get(id) is none after either of them.
C1_BindingUntilRemoved ==
    \A id \in Ids \ {0} :
        IF IsSessionStart(last.m) \/ IsUnregister(last.m, id) THEN Get(id) = None
        ELSE IF GetIn(last.before.cache, id) # None
             THEN Get(id) = GetIn(last.before.cache, id)
        ELSE IF IsLabelRecord(last.m) /\ RecordOf(last.m).id = id
             THEN Get(id) = Some(RecordOf(last.m).label)
        ELSE Get(id) = None

\* C1, amended: handling a label record (id, L), id # 0, makes get(id)
\* return L; get(id) keeps its value over every other message except an
\* unregister(id) and a session-start, after which it is none.  A later
\* label record for the same id replaces the label.
C1_BindingUntilRemovedOrRelabelled ==
    \A id \in Ids \ {0} :
        IF IsLabelRecord(last.m) /\ RecordOf(last.m).id = id
        THEN Get(id) = Some(RecordOf(last.m).label)
        ELSE IF IsSessionStart(last.m) \/ IsUnregister(last.m, id) THEN Get(id) = None
        ELSE Get(id) = GetIn(last.before.cache, id)

\* a bound identifier has just been unregistered while another stays bound
C1_Witness ==
    /\ IsUnregister(last.m, 7)
    /\ GetIn(last.before.cache, 7) # None
    /\ Get(7) = None
    /\ Get(12) = Some(<< 85,112 >>)

----------------------------------------------------------------------------
(* C2 *)

\* C2: a session-start leaves the Binding Cache empty, whatever it held
\* before and whether or not a source handle was known.
C2_StartClears ==
    IsSessionStart(last.m) => g_idToName = EmptyMap /\ DOMAIN g_idToName = {}

\* a session-start was handled while Active with two bindings
C2_Witness ==
    /\ IsSessionStart(last.m)
    /\ last.before.mame # NULL
    /\ DOMAIN last.before.cache = {7, 12}
    /\ Cardinality(DOMAIN g_idToName) = 0

----------------------------------------------------------------------------
(* C3 *)

\* C3: identifier 0 is never a key of the Binding Cache; a label record
\* for identifier 0 goes to the game-name channel and leaves the cache as
\* it was.
C3_SentinelNeverBound ==
    /\ 0 \notin DOMAIN g_idToName
    /\ (IsLabelRecord(last.m) /\ RecordOf(last.m).id = 0) =>
          /\ g_idToName = last.before.cache
          /\ g_currentRomName = RecordOf(last.m).label
          /\ Len(last.ev) >= 1
          /\ last.ev[1] = [kind |-> "text", key |-> RecordOf(last.m).key,
                           text |-> RecordOf(last.m).label]

\* a label record for identifier 0 was handled
C3_Witness ==
    /\ IsLabelRecord(last.m)
    /\ RecordOf(last.m).id = 0
    /\ g_currentRomName = << 76,105,118,101,115 >>
    /\ DOMAIN g_idToName = {7}

----------------------------------------------------------------------------
(* C4 *)

\* the key=value packets: the key before the first '=', and the value when
\* the text after it is a signed integer
KeyValueRecords ==
    { [pkt |-> CopyData(0, << 115,99,111,114,101, 61, 49,53,48,48 >>),
       key |-> << 115,99,111,114,101 >>, valid |-> TRUE, value |-> 1500],
      [pkt |-> CopyData(0, << 115,99,111,114,101, 61, 45,53 >>),
       key |-> << 115,99,111,114,101 >>, valid |-> TRUE, value |-> 0 - 5],
      [pkt |-> CopyData(0, << 115,99,111,114,101, 61, 97,98,99 >>),
       key |-> << 115,99,111,114,101 >>, valid |-> FALSE, value |-> 0],
      [pkt |-> CopyData(0, << 115,99,111,114,101, 61, 49,50,97,98,99 >>),
       key |-> << 115,99,111,114,101 >>, valid |-> FALSE, value |-> 0] }

IsKeyValue(m) == \E r \in KeyValueRecords : r.pkt = m
KeyValueOf(m) == CHOOSE r \in KeyValueRecords : r.pkt = m

NumericUpdate(key, value) == [kind |-> "value", key |-> key, value |-> value]
LabelUpdate(key, label) == [kind |-> "label", key |-> key, label |-> label]
TextUpdate(key, text) == [kind |-> "text", key |-> key, text |-> text]

\* the event of a label record: label-update, or text-update for identifier 0
RecordEvent(r) ==
    IF r.id = 0 THEN TextUpdate(r.key, r.label) ELSE LabelUpdate(r.key, r.label)

\* WndProc has just handled a message
Handled == crashed = "no" /\ pumpPc = "wait" /\ (pumpPc' = "loop" \/ crashed' = "exception")

\* the calls queued grow at the end by the events of the message handled,
\* in their order
AppendsEvents ==
    /\ Len(jsQueue') = Len(jsQueue) + Len(last'.ev)
    /\ \A i \in 1..Len(jsQueue) : jsQueue'[i] = jsQueue[i]
    /\ \A i \in 1..Len(last'.ev) : jsQueue'[Len(jsQueue) + i].ev = last'.ev[i]

\* C4: a label record yields exactly one label (or text) event of its own
\* key and label, followed by the seeding numeric-update(key, 0); a
\* key=value record yields exactly one numeric-update of its own key and
\* value; the events of a message join the queue behind those of the
\* messages before it, and nothing else enters the queue.
C4_OneEventPerRecord ==
    /\ [](IsLabelRecord(last.m) =>
             last.ev = << RecordEvent(RecordOf(last.m)),
                          NumericUpdate(RecordOf(last.m).key, 0) >>)
    /\ []((IsKeyValue(last.m) /\ KeyValueOf(last.m).valid) =>
             last.ev = << NumericUpdate(KeyValueOf(last.m).key, KeyValueOf(last.m).value) >>)
    /\ [][IF Handled THEN AppendsEvents
          ELSE jsQueue' = jsQueue \/ jsQueue' = Tail(jsQueue)]_vars

\* a label record and then a key=value record were handled, the seeding
\* event of the first still waiting when the second arrived
C4_Witness ==
    /\ IsKeyValue(last.m)
    /\ last.ev = << NumericUpdate(<< 115,99,111,114,101 >>, 1500) >>
    /\ Len(jsQueue) = 2
    /\ jsQueue[1].ev = NumericUpdate(<< 105,100,95,55 >>, 0)
    /\ jsQueue[2].ev = NumericUpdate(<< 115,99,111,114,101 >>, 1500)

----------------------------------------------------------------------------
(* C5 *)

KeyText(id) ==
    CASE id = 0 -> << 95,95,71,65,77,69,95,78,65,77,69,95,95 >>
      [] id = 7 -> << 105,100,95,55 >>
      [] id = 12 -> << 105,100,95,49,50 >>

IsUpdate(m) == m.msg = WM_MAME_UPDATE
UnknownUpdate == IsUpdate(last.m) /\ last.m.wp # 0 /\ last.m.wp \notin DOMAIN last.before.cache

\* the request for the label of id, by broadcast and directly to handle h
RequestLabel(h, id) ==
    << [to |-> HWND_BROADCAST, msg |-> WM_MAME_GET_ID, wp |-> ME, lp |-> id],
       [to |-> h, msg |-> WM_MAME_GET_ID, wp |-> ME, lp |-> id] >>

\* C5, as stated: an update for a non-zero identifier absent from the
\* Binding Cache posts exactly two requests for its label, one broadcast
\* and one direct, and queues exactly one numeric-update, in every state,
\* before the first session-start too.
C5_UnknownUpdateAsks ==
    UnknownUpdate =>
        /\ last.out = RequestLabel(last.before.mame, last.m.wp)
        /\ last.ev = << NumericUpdate(KeyText(last.m.wp), last.m.lp) >>

\* C5, amended: such an update posts exactly two requests for the label,
\* one broadcast and one to the source handle, once a session-start has
\* made a source handle known, and none before the first session-start; in
\* both cases it queues exactly one numeric-update, all of it within the
\* handling of that message.
C5_UnknownUpdateAsksKnownSource ==
    UnknownUpdate =>
        /\ last.before.mame # NULL => last.out = RequestLabel(last.before.mame, last.m.wp)
        /\ last.before.mame = NULL => last.out = << >>
        /\ last.ev = << NumericUpdate(KeyText(last.m.wp), last.m.lp) >>

\* an update for the unbound identifier 12 was handled, the source known
C5_Witness ==
    /\ UnknownUpdate
    /\ last.m.wp = 12
    /\ last.before.mame = 2
    /\ Len(last.out) = 2
    /\ Len(last.ev) = 1

----------------------------------------------------------------------------
(* C6 *)

\* C6: session-start, label record (7, "Lives"), update(7, 3) queue
\* session-started, label-update("id_7", "Lives"), numeric-update("id_7", 0),
\* numeric-update("id_7", 3), these and no other, in this order; and a
\* label record (id, L), id # 0, queues label-update("id_" id, L) and right
\* after it numeric-update("id_" id, 0).
C6_Scenario ==
    /\ scen = 3 =>
          scenEv = << NumericUpdate(<< 95,95,77,65,77,69,95,83,84,65,82,84,95,95 >>, 1),
                      LabelUpdate(<< 105,100,95,55 >>, << 76,105,118,101,115 >>),
                      NumericUpdate(<< 105,100,95,55 >>, 0),
                      NumericUpdate(<< 105,100,95,55 >>, 3) >>
    /\ (IsLabelRecord(last.m) /\ RecordOf(last.m).id # 0) =>
          last.ev = << LabelUpdate(KeyText(RecordOf(last.m).id), RecordOf(last.m).label),
                       NumericUpdate(KeyText(RecordOf(last.m).id), 0) >>

\* the three messages of the scenario were handled in a row
C6_Witness ==
    /\ scen = 3
    /\ Len(scenEv) = 4
    /\ last.m = Msg(WM_MAME_UPDATE, 7, 3)

----------------------------------------------------------------------------
(* C7 *)

\* C7: on the key=value path a signed integer after the first '=' yields
\* exactly one numeric-update of the key before it and leaves the Binding
\* Cache alone; anything else after the '=' yields no event.
C7_KeyValueStrict ==
    IsKeyValue(last.m) =>
        /\ g_idToName = last.before.cache
        /\ IF KeyValueOf(last.m).valid
           THEN last.ev = << NumericUpdate(KeyValueOf(last.m).key, KeyValueOf(last.m).value) >>
           ELSE last.ev = << >>

----------------------------------------------------------------------------
(* C8 *)

\* payloads that are malformed or unrecognized
Malformed ==
    { CopyData(0, << 97, 61, 49 >>),
      CopyData(0, << 76,105,118,101,115 >>),
      CopyData(1, << 7,0,0,0 >>),
      CopyData(0, << 115,99,111,114,101, 61, 97,98,99 >>) }

\* C8: no payload is fatal: a malformed payload is acknowledged, leaves
\* the Binding Cache and the source handle as they were, and the process
\* is never terminated by what a payload contains.
C8_NoPayloadFatal ==
    /\ crashed # "exception"
    /\ last.m \in Malformed =>
          /\ ~last.thrown
          /\ g_idToName = last.before.cache
          /\ g_mameHWND = last.before.mame

----------------------------------------------------------------------------
(* C9 *)

\* stopListener ran from start to end with no thread to join
StopWhileIdle ==
    /\ crashed = "no" /\ jsPc = "idle" /\ ~g_msgThread /\ threads = 0
    /\ jsPc' = "idle" /\ jsRet'.op = "stop" /\ g_running' = FALSE
    /\ jsQueue' = jsQueue

\* C9: stopListener without a running listener is a no-op: it returns, it
\* posts no wake-up, and it does not release the callback again.
C9_StopIdleNoOp ==
    [][StopWhileIdle =>
          /\ g_tsfn' = g_tsfn
          /\ crashed' = "no"
          /\ quitPosted' = quitPosted]_vars

----------------------------------------------------------------------------
(* C10 *)

\* startListener was called with a function
StartCall == jsRet' # jsRet /\ jsRet'.op = "start" /\ jsRet'.val # "TypeError"

\* C10: there is at most one message-pump thread; startListener(callback)
\* with a thread alive returns true and changes neither the thread, nor
\* the run flag, nor the callback; with no thread alive it launches one.
C10_OneListeningContext ==
    /\ [](threads <= 1)
    /\ [][(StartCall /\ threads = 1) =>
             /\ jsRet'.val = "true"
             /\ UNCHANGED << threads, g_running, g_tsfn, g_msgThread, pumpPc, g_hwnd >>]_vars
    /\ [][(StartCall /\ threads = 0) =>
             /\ jsRet'.val = "launched"
             /\ threads' = 1
             /\ pumpPc' = "init"
             /\ g_running'
             /\ g_tsfn'.cb \in Callbacks /\ g_tsfn'.threadCount = 1]_vars

\* startListener returned true for a second callback while the thread of
\* the first one was running
C10_Witness ==
    /\ jsRet = [op |-> "start", arg |-> 2, val |-> "true"]
    /\ threads = 1
    /\ g_tsfn.cb = 1
    /\ g_tsfn.releaseCalls = 0
    /\ pumpPc = "wait"

----------------------------------------------------------------------------
(* C11 *)

\* startListener was called without a function
StartCallNoFunction == jsRet' # jsRet /\ jsRet'.op = "start" /\ jsRet'.arg = NoCallback

\* C11: startListener called without a function fails at once with a
\* TypeError and changes nothing: no thread is launched, the run flag, the
\* callback, the window, the queues and the protocol state stay as they
\* were, with a thread running or not.
C11_NoCallbackRejected ==
    [][StartCallNoFunction =>
          /\ jsRet'.val = "TypeError"
          /\ jsPc' = "idle"
          /\ UNCHANGED << g_hwnd, g_running, g_tsfn, g_msgThread, pumpPc, quitPosted,
                          threads, jsQueue, crashed >>
          /\ UNCHANGED protoVars]_vars

\* the TypeError was raised with the first listener running and waiting
C11_Witness ==
    /\ jsRet = [op |-> "start", arg |-> NoCallback, val |-> "TypeError"]
    /\ threads = 1
    /\ g_running
    /\ g_tsfn.cb = 1
    /\ pumpPc = "wait"

----------------------------------------------------------------------------
(* C12 *)

\* C12: stopListener called with a thread running always returns in the
\* end, with the pump thread ended and joined, whatever the thread was
\* doing; the callback is released only once the thread has ended, and no
\* call is queued on a released callback.
C12_StopReturns ==
    /\ (jsPc = "join") ~> (jsPc = "idle" /\ threads = 0 /\ pumpPc = "none")
    /\ [][g_tsfn'.releaseCalls > g_tsfn.releaseCalls =>
             threads' = 0 /\ pumpPc' = "none"]_vars
    /\ [][Len(jsQueue') > Len(jsQueue) => g_tsfn.threadCount > 0]_vars

----------------------------------------------------------------------------
(* C13 *)

\* C13: every event emitted with a callback registered becomes one call
\* bound to that callback, queued behind the calls emitted before it; a
\* call leaves the queue only from its head, run by the JavaScript thread
\* while that thread is in its event loop, never by the pump thread: each
\* event is run once, by the consumer, in the order of emission.
C13_DeliveredOnceInOrder ==
    [][jsQueue' # jsQueue =>
          \/ /\ Handled
             /\ g_tsfn.cb \in Callbacks
             /\ jsPc' = jsPc
             /\ Len(jsQueue') = Len(jsQueue) + Len(last'.ev)
             /\ \A i \in 1..Len(jsQueue) : jsQueue'[i] = jsQueue[i]
             /\ \A i \in 1..Len(last'.ev) :
                   jsQueue'[Len(jsQueue) + i] = [cb |-> g_tsfn.cb, ev |-> last'.ev[i]]
          \/ /\ jsPc = "idle" /\ jsPc' = "idle"
             /\ pumpPc' = pumpPc
             /\ last' = last
             /\ jsQueue # << >>
             /\ jsQueue' = Tail(jsQueue)]_vars

\* of the two events of a label record the first has been run, and the
\* second is next
C13_Witness ==
    /\ IsLabelRecord(last.m)
    /\ Len(last.ev) = 2
    /\ jsPc = "idle"
    /\ jsQueue = << [cb |-> g_tsfn.cb, ev |-> last.ev[2]] >>

----------------------------------------------------------------------------
(* C14 *)

\* C14: the hand-over of events has capacity one: at most one call is
\* queued and not yet run at any time, and the pump thread handles its
\* next message only once the consumer has run every call queued before.
C14_CapacityOne ==
    /\ [](Len(jsQueue) <= 1)
    /\ [][Handled => jsQueue = << >>]_vars

----------------------------------------------------------------------------
(* C15 *)

\* the packet built from identifier i and the bytes b after it
IsBuiltFrom(m, i, b) ==
    /\ m.msg = WM_COPYDATA /\ m.dwData = 1
    /\ Len(m.data) = 4 + Len(b)
    /\ m.data[1] + 256 * m.data[2] = i /\ m.data[3] = 0 /\ m.data[4] = 0
    /\ \A k \in 1..Len(b) : m.data[4 + k] = b[k]

\* the bytes of b before its first NUL, all of b if it has none
UpToTerminator(b) ==
    LET zs == { k \in 1..Len(b) : b[k] = 0 }
        n == IF zs = {} THEN Len(b) ELSE (CHOOSE k \in zs : \A j \in zs : k <= j) - 1
    IN  [k \in 1..n |-> b[k]]

DecodeKeyText(i) ==
    CASE i = 0 -> << 95,95,71,65,77,69,95,78,65,77,69,95,95 >>
      [] i = 7 -> << 105,100,95,55 >>
      [] i = 300 -> << 105,100,95,51,48,48 >>

\* C15: an id+label packet (tag 1, at least one byte after the 4-byte
\* identifier) built from identifier i and bytes b decodes to i and to the
\* bytes of b before the first NUL, all of b when it holds no NUL: the bytes
\* after a NUL are left out, and nothing beyond the declared length is
\* read.  The pair decoded is the one stored and reported.
C15_DecodeLabelRecord ==
    \A i \in DecodeIds : \A b \in DecodeBodies :
        IsBuiltFrom(last.m, i, b) =>
            /\ Len(last.ev) = 2
            /\ last.ev[1].key = DecodeKeyText(i)
            /\ IF i = 0
               THEN /\ last.ev[1] = [kind |-> "text", key |-> DecodeKeyText(i),
                                     text |-> UpToTerminator(b)]
                    /\ g_currentRomName = UpToTerminator(b)
                    /\ g_idToName = last.before.cache
               ELSE /\ last.ev[1] = [kind |-> "label", key |-> DecodeKeyText(i),
                                     label |-> UpToTerminator(b)]
                    /\ i \in DOMAIN g_idToName
                    /\ g_idToName[i] = UpToTerminator(b)

\* identifier 300, label "A", a NUL and one more byte after it
C15_Witness ==
    /\ last.m = CopyData(1, << 44,1,0,0, 65, 0, 65 >>)
    /\ 300 \in DOMAIN g_idToName
    /\ g_idToName[300] = << 65 >>

----------------------------------------------------------------------------
(* C16 *)

\* the signals of kind msg among those posted
OfKind(out, msg) == SelectSeq(out, LAMBDA o : o.msg = msg)

\* C16: a session-start(h), with or without a window known before, makes h
\* the window held, queues exactly one numeric-update("__MAME_START__", 1),
\* and posts exactly two requests for all labels (identifier 0), one
\* broadcast and one to h; no signal goes to the window held before.
C16_StartAsksNewSource ==
    IsSessionStart(last.m) =>
        /\ g_mameHWND = last.m.wp
        /\ last.ev = << NumericUpdate(<< 95,95,77,65,77,69,95,83,84,65,82,84,95,95 >>, 1) >>
        /\ OfKind(last.out, WM_MAME_GET_ID) = RequestLabel(last.m.wp, 0)
        /\ \A k \in 1..Len(last.out) : last.out[k].to \in {HWND_BROADCAST, last.m.wp}

\* a session-start(2) was handled with window 1 held
C16_Witness ==
    /\ last.m = Msg(WM_MAME_START, 2, 0)
    /\ last.before.mame = 1
    /\ g_mameHWND = 2
    /\ Len(last.ev) = 1

----------------------------------------------------------------------------
(* C17 *)

\* C17: an update(id, v) posts the two requests for the label of id only
\* when id is not 0, is absent from the Binding Cache and a window is held,
\* and posts nothing otherwise; it always queues exactly one
\* numeric-update(key, v), the key being "__GAME_NAME__" for identifier 0
\* and "id_<id>" otherwise, and leaves the Binding Cache as it was.
C17_UpdateAsksOnlyUnknown ==
    IsUpdate(last.m) =>
        /\ last.out = IF /\ last.m.wp # 0
                         /\ last.m.wp \notin DOMAIN last.before.cache
                         /\ last.before.mame # NULL
                      THEN RequestLabel(last.before.mame, last.m.wp)
                      ELSE << >>
        /\ last.ev = << NumericUpdate(KeyText(last.m.wp), last.m.lp) >>
        /\ g_idToName = last.before.cache
        /\ g_mameHWND = last.before.mame

\* an update for identifier 0 was handled with a window held and
\* identifier 7 bound
C17_Witness ==
    /\ last.m = Msg(WM_MAME_UPDATE, 0, 3)
    /\ last.before.mame = 1
    /\ 7 \in DOMAIN g_idToName
    /\ last.out = << >>
    /\ Len(last.ev) = 1

----------------------------------------------------------------------------
(* C18 *)

IsRegister(m) == m.msg = WM_MAME_REGISTER

\* C18: a register(id) posts its two requests for the label of id only
\* while a window is held, that is after a session-start; a register
\* before the first session-start posts nothing.  In both cases it leaves
\* the Binding Cache and the window held as they were and queues no event.
C18_RegisterOnlyWhileActive ==
    IsRegister(last.m) =>
        /\ last.out = IF last.before.mame # NULL
                      THEN RequestLabel(last.before.mame, last.m.lp)
                      ELSE << >>
        /\ last.ev = << >>
        /\ g_idToName = last.before.cache
        /\ g_mameHWND = last.before.mame

----------------------------------------------------------------------------
(* C19 *)

IsSessionStop(m) == m.msg = WM_MAME_STOP

\* C19: a session-stop queues exactly one numeric-update("__MAME_STOP__", 0)
\* and leaves the Binding Cache and the window held as they were; from then
\* to the next session-start the window held is stale: no signal posted for
\* a message of the emulator is addressed to it.
C19_StopLeavesSourceStale ==
    /\ IsSessionStop(last.m) =>
          /\ last.ev = << NumericUpdate(<< 95,95,77,65,77,69,95,83,84,79,80,95,95 >>, 0) >>
          /\ last.out = << >>
          /\ g_idToName = last.before.cache
          /\ g_mameHWND = last.before.mame
    /\ (stopped /\ ~last.own /\ last.before.mame # NULL) =>
          \A k \in 1..Len(last.out) : last.out[k].to # last.before.mame

----------------------------------------------------------------------------
(* C20 *)

InboundKinds ==
    { WM_MAME_START, WM_MAME_STOP, WM_MAME_REGISTER, WM_MAME_UPDATE, WM_MAME_UNREG }

\* C20: the kinds of the signals the listener posts are none of the kinds
\* it handles: a broadcast of its own that comes back to its window is of
\* no inbound kind, posts no signal, queues no event and changes neither
\* the Binding Cache nor the window held.
C20_OwnSignalsNotInbound ==
    last.own =>
        /\ last.m.msg \notin InboundKinds
        /\ last.out = << >>
        /\ last.ev = << >>
        /\ g_idToName = last.before.cache
        /\ g_mameHWND = last.before.mame

====
